---- MODULE Spec2Model ----
(***************************************************************************)
(* The ping input plugin (plugins/inputs/ping/ping.go): Gather fans out    *)
(* one goroutine per configured url, each goroutine resolves the name,     *)
(* builds the ping command line, runs the ping binary through the          *)
(* HostPinger, parses the text it printed and adds one field-set to the    *)
(* accumulator.  Strings are TLA+ strings handled character by character,  *)
(* so that the text functions are computed the way the Go code computes    *)
(* them.  Spec, ProbeSpec and FailSpec run Gather and its goroutines with  *)
(* ping binaries of different behaviours; ArgsSpec and ParseSpec apply     *)
(* args with the timeouts, and processPingOutput, to inputs of their own.  *)
(***************************************************************************)
EXTENDS Integers, Sequences, FiniteSets, TLC

(***************************************************************************)
(* Bounds of the model.                                                    *)
(***************************************************************************)
\* the longest list of urls a configuration holds
MaxTargets == 2
\* the largest exit status the ping binary returns
MaxStatus == 3
\* the largest spare capacity (cap - len) of the stored Arguments slice
MaxSpare == 1

(***************************************************************************)
(* strings, strconv and regexp as ping.go uses them.                       *)
(***************************************************************************)
Char(s, i) == SubSeq(s, i, i)

HasPrefixAt(s, i, sub) ==
    /\ i + Len(sub) - 1 <= Len(s)
    /\ SubSeq(s, i, i + Len(sub) - 1) = sub

\* the index of the first occurrence of sub in s at or after i, 0 when none
RECURSIVE IndexFrom(_, _, _)
IndexFrom(s, sub, i) ==
    IF i + Len(sub) - 1 > Len(s) THEN 0
    ELSE IF HasPrefixAt(s, i, sub) THEN i
    ELSE IndexFrom(s, sub, i + 1)

\* strings.Contains
Contains(s, sub) == IndexFrom(s, sub, 1) # 0

\* strings.Split with a non-empty separator; k is the index of its first
\* occurrence in s
RECURSIVE SplitAt(_, _, _)
SplitAt(s, sep, k) ==
    IF k = 0 THEN << s >>
    ELSE << SubSeq(s, 1, k - 1) >>
         \o SplitAt(SubSeq(s, k + Len(sep), Len(s)), sep,
                    IndexFrom(SubSeq(s, k + Len(sep), Len(s)), sep, 1))

Split(s, sep) == SplitAt(s, sep, IndexFrom(s, sep, 1))

Digits == << "0", "1", "2", "3", "4", "5", "6", "7", "8", "9" >>

IsDigit(c) == \E d \in 1..10 : Digits[d] = c

DigitVal(c) == (CHOOSE d \in 1..10 : Digits[d] = c) - 1

AllDigits(s) == Len(s) > 0 /\ \A i \in 1..Len(s) : IsDigit(Char(s, i))

\* the value of a run of decimal digits
RECURSIVE Uint(_)
Uint(s) ==
    IF Len(s) = 0 THEN 0
    ELSE Uint(SubSeq(s, 1, Len(s) - 1)) * 10 + DigitVal(Char(s, Len(s)))

\* strconv.Itoa
RECURSIVE UintString(_)
UintString(n) ==
    IF n < 10 THEN Digits[n + 1]
    ELSE UintString(n \div 10) \o Digits[(n % 10) + 1]

Itoa(n) == IF n < 0 THEN "-" \o UintString(-n) ELSE UintString(n)

\* a number's text: whether it starts with a minus, and what follows its sign
Negative(s) == Len(s) > 0 /\ Char(s, 1) = "-"

Unsigned(s) ==
    IF Len(s) > 0 /\ Char(s, 1) \in {"-", "+"} THEN SubSeq(s, 2, Len(s)) ELSE s

AtoiDigits(neg, body) ==
    IF AllDigits(body)
    THEN [val |-> IF neg THEN -Uint(body) ELSE Uint(body), err |-> "nil"]
    ELSE [val |-> 0, err |-> "strconv.Atoi: invalid syntax"]

\* strconv.Atoi: an optional sign and one or more digits; 0 and an error
\* on any other text
Atoi(s) == AtoiDigits(Negative(s), Unsigned(s))

(***************************************************************************)
(* float64 values: a decimal number is the pair of its digits m and the    *)
(* number e of digits after the point, m / 10^e, without trailing zeros.   *)
(***************************************************************************)
RECURSIVE Normal(_, _)
Normal(m, e) ==
    IF e > 0 /\ m % 10 = 0 THEN Normal(m \div 10, e - 1)
    ELSE [m |-> m, e |-> e]

Float(n) == [m |-> n, e |-> 0]

Signed(neg, f) == IF neg THEN [m |-> -f.m, e |-> f.e] ELSE f

Decimal(neg, whole, frac) ==
    IF AllDigits(whole \o frac)
    THEN [val |-> Signed(neg, Normal(Uint(whole \o frac), Len(frac))), err |-> "nil"]
    ELSE [val |-> Float(0), err |-> "strconv.ParseFloat: invalid syntax"]

PointAt(neg, body, dot) ==
    IF dot = 0 THEN Decimal(neg, body, "")
    ELSE Decimal(neg, SubSeq(body, 1, dot - 1), SubSeq(body, dot + 1, Len(body)))

\* strconv.ParseFloat on decimal text: an optional sign, digits with at
\* most one point and at least one digit; 0 and an error on any other text
ParseFloat(s) == PointAt(Negative(s), Unsigned(s), IndexFrom(Unsigned(s), ".", 1))

(***************************************************************************)
(* The output parser.                                                      *)
(***************************************************************************)
\* the first index at or after i where `ttl=` is followed by a digit; k is
\* the first index of `ttl=` at or after i
RECURSIVE TtlMatchAt(_, _)
TtlMatchAt(line, k) ==
    IF k = 0 THEN 0
    ELSE IF IsDigit(Char(line, k + 4)) THEN k
    ELSE TtlMatchAt(line, IndexFrom(line, "ttl=", k + 1))

\* the end of the run of digits that starts at i
RECURSIVE DigitRunEnd(_, _)
DigitRunEnd(line, i) ==
    IF i < Len(line) /\ IsDigit(Char(line, i + 1)) THEN DigitRunEnd(line, i + 1)
    ELSE i

TtlValue(r) == [panic |-> FALSE, ttl |-> r.val, err |-> r.err]

\* ttlLine.FindStringSubmatch(line) matched at k, or (k = 0) nowhere:
\* ttlMatch is nil then, and ttlMatch[1] panics
SubmatchAt(line, k) ==
    IF k = 0 THEN [panic |-> TRUE, ttl |-> 0, err |-> "nil"]
    ELSE TtlValue(Atoi(SubSeq(line, k + 4, DigitRunEnd(line, k + 4))))

getTTL(line) == SubmatchAt(line, TtlMatchAt(line, IndexFrom(line, "ttl=", 1)))

Received(t, r) == [panic |-> FALSE, trans |-> t.val, recv |-> r.val, err |-> r.err]

\* getPacketStats once the transmitted packets are converted: stats[1]
\* panics when the line holds no ", "
Transmitted(stats, t, recv) ==
    IF t.err # "nil"
    THEN [panic |-> FALSE, trans |-> t.val, recv |-> recv, err |-> t.err]
    ELSE IF Len(stats) < 2
    THEN [panic |-> TRUE, trans |-> t.val, recv |-> recv, err |-> "nil"]
    ELSE Received(t, Atoi(Split(stats[2], " ")[1]))

StatsOf(stats, recv) == Transmitted(stats, Atoi(Split(stats[1], " ")[1]), recv)

getPacketStats(line, trans, recv) == StatsOf(Split(line, ", "), recv)

RttReturn(min, avg, max, stddev, err) ==
    [panic |-> FALSE, min |-> min, avg |-> avg, max |-> max, stddev |-> stddev,
     err |-> err]

RttPanic ==
    [panic |-> TRUE, min |-> Float(0), avg |-> Float(0), max |-> Float(0),
     stddev |-> Float(0), err |-> "nil"]

\* checkRoundTripTimeStats, number by number: a missing number panics
RttStddev(min, avg, max, f) == RttReturn(min, avg, max, f.val, f.err)

\* the maximum converted, and a fourth number never looked at
RttMaxAlone(data, min, avg, f, stddev) == RttReturn(min, avg, f.val, stddev, f.err)

RttMax(data, min, avg, f, stddev) ==
    IF f.err # "nil" THEN RttReturn(min, avg, f.val, stddev, f.err)
    ELSE IF Len(data) = 4 THEN RttStddev(min, avg, f.val, ParseFloat(data[4]))
    ELSE RttReturn(min, avg, f.val, stddev, "nil")

RttAvg(data, min, f, max, stddev) ==
    IF f.err # "nil" THEN RttReturn(min, f.val, max, stddev, f.err)
    ELSE IF Len(data) < 3 THEN RttPanic
    ELSE RttMax(data, min, f.val, ParseFloat(data[3]), stddev)

RttMin(data, f, avg, max, stddev) ==
    IF f.err # "nil" THEN RttReturn(f.val, avg, max, stddev, f.err)
    ELSE IF Len(data) < 2 THEN RttPanic
    ELSE RttAvg(data, f.val, ParseFloat(data[2]), max, stddev)

RttData(data, avg, max, stddev) == RttMin(data, ParseFloat(data[1]), avg, max, stddev)

\* the fourth space-separated token, split on "/"; a missing token panics
RttTokens(toks, avg, max, stddev) ==
    IF Len(toks) < 4 THEN RttPanic
    ELSE RttData(Split(toks[4], "/"), avg, max, stddev)

checkRoundTripTimeStats(line, min, avg, max, stddev) ==
    RttTokens(Split(line, " "), avg, max, stddev)

\* the locals of processPingOutput before the first line
ParseStart ==
    [panic |-> FALSE, returned |-> FALSE, trans |-> 0, recv |-> 0, ttl |-> -1,
     min |-> Float(-1), avg |-> Float(-1), max |-> Float(-1), stddev |-> Float(-1),
     err |-> "Fatal error processing ping output"]

\* ttl, err = getTTL(line)
SetTTL(st, r) ==
    IF r.panic THEN [st EXCEPT !.panic = TRUE]
    ELSE [st EXCEPT !.ttl = r.ttl, !.err = r.err]

\* the assignment without the return on the error
SetPacketStatsGoesOn(st, r) ==
    IF r.panic THEN [st EXCEPT !.panic = TRUE]
    ELSE [st EXCEPT !.trans = r.trans, !.recv = r.recv, !.err = r.err]

\* trans, recv, err = getPacketStats(line, trans, recv), and the return on
\* its error
SetPacketStats(st, r) ==
    IF r.panic THEN [st EXCEPT !.panic = TRUE]
    ELSE [st EXCEPT !.trans = r.trans, !.recv = r.recv, !.err = r.err,
                    !.returned = (r.err # "nil")]

\* min, avg, max, stddev, err = checkRoundTripTimeStats(...), and the return
\* on its error
SetRoundTrip(st, r) ==
    IF r.panic THEN [st EXCEPT !.panic = TRUE]
    ELSE [st EXCEPT !.min = r.min, !.avg = r.avg, !.max = r.max,
                    !.stddev = r.stddev, !.err = r.err,
                    !.returned = (r.err # "nil")]

\* the iteration with every ttl line read, not the first only
ParseLineEveryTtl(st, line) ==
    IF Contains(line, "ttl=")
    THEN SetTTL(st, getTTL(line))
    ELSE IF Contains(line, "transmitted") /\ Contains(line, "received")
    THEN SetPacketStats(st, getPacketStats(line, st.trans, st.recv))
    ELSE IF Contains(line, "min/avg/max")
    THEN SetRoundTrip(st, checkRoundTripTimeStats(line, st.min, st.avg, st.max, st.stddev))
    ELSE st

\* one iteration of the loop over the lines
ParseLine(st, line) ==
    IF st.ttl = -1 /\ Contains(line, "ttl=")
    THEN SetTTL(st, getTTL(line))
    ELSE IF Contains(line, "transmitted") /\ Contains(line, "received")
    THEN SetPacketStats(st, getPacketStats(line, st.trans, st.recv))
    ELSE IF Contains(line, "min/avg/max")
    THEN SetRoundTrip(st, checkRoundTripTimeStats(line, st.min, st.avg, st.max, st.stddev))
    ELSE st

RECURSIVE ParseLines(_, _, _)
ParseLines(st, lines, i) ==
    IF i > Len(lines) \/ st.panic \/ st.returned THEN st
    ELSE ParseLines(ParseLine(st, lines[i]), lines, i + 1)

processPingOutput(out) == ParseLines(ParseStart, Split(out, "\n"), 1)

(***************************************************************************)
(* The texts the ping binary prints, put together from lines.              *)
(***************************************************************************)
\* the most lines a printed text has
MaxLines == 2

Lines ==
    << "PING example.org (1.2.3.4): 56 data bytes",
       "64 bytes from 1.2.3.4: icmp_seq=0 ttl=54 time=52.172 ms",
       "2 packets transmitted, 2 packets received, 0.0% packet loss",
       "2 packets transmitted, 0 packets received, 100.0% packet loss",
       "round-trip min/avg/max/stddev = 34.843/43.508/52.172/8.664 ms",
       "rtt min/avg/max = 1.5/2.5/3.5 ms",
       "0 packets transmitted, 0 packets received",
       "-2 packets transmitted, 0 packets received",
       "From 1.2.3.4 icmp_seq=1 ttl= exceeded" >>

\* the lines joined by newlines
RECURSIVE Join(_)
Join(ls) ==
    IF Len(ls) = 0 THEN ""
    ELSE IF Len(ls) = 1 THEN ls[1]
    ELSE ls[1] \o "\n" \o Join(Tail(ls))

LineSeqs == UNION {[1..n -> 1..Len(Lines)] : n \in 0..MaxLines}

AllOutputs == {Join([i \in DOMAIN ls |-> Lines[ls[i]]]) : ls \in LineSeqs}

\* the texts of a ping binary with a few behaviours: replies and their
\* statistics, full loss, a banner alone, nothing, a reply line without a ttl
Replies == Join(<< Lines[2], Lines[3], Lines[5] >>)

FullLoss == Lines[4]

Banner == Lines[1]

NoTtl == Join(<< Lines[9], Lines[3] >>)

FewOutputs == {Replies, FullLoss, Banner, "", NoTtl}

\* processPingOutput of every text the model's ping binaries print
ParseTable == [out \in AllOutputs \cup FewOutputs |-> processPingOutput(out)]

\* the most lines of a text handed to processPingOutput on its own
MaxText == 3

\* the summary line of x packets sent and y received, printed with z percent
SummaryLine(x, y, z) ==
    Itoa(x) \o " packets transmitted, " \o Itoa(y) \o " packets received, " \o z
    \o "% packet loss"

\* lines of every shape processPingOutput tells apart: a banner; replies
\* with a ttl and one without its digits; summaries, one with a text for a
\* number and one without ", "; round-trip lines of four and of three
\* numbers, with a text for a number, without the numbers, with two
\* numbers, with two spaces after the first word, with a negative number
ParserLines ==
    << Lines[1],
       Lines[2],
       "64 bytes from 1.2.3.4: icmp_seq=1 ttl=63 time=34.843 ms",
       Lines[9],
       SummaryLine(2, 2, "0.0"),
       SummaryLine(3, 1, "0"),
       "x packets transmitted, 2 packets received, 0.0% packet loss",
       "2 packets transmitted 2 packets received",
       Lines[5],
       Lines[6],
       "rtt min/avg/max = x/2.5/3.5 ms",
       "rtt min/avg/max",
       "rtt min/avg/max = 1.5/2.5 ms",
       "rtt  min/avg/max = 1.5/2.5/3.5 ms",
       "rtt min/avg/max = -1.5/2.5/3.5 ms" >>

\* the texts of up to MaxText different lines of these, each as the indices
\* of its lines
Texts ==
    {ls \in UNION {[1..n -> 1..Len(ParserLines)] : n \in 0..MaxText} :
        \A i \in DOMAIN ls : \A j \in DOMAIN ls : ls[i] = ls[j] => i = j}

TextOf(ls) == Join([i \in DOMAIN ls |-> ParserLines[ls[i]]])

(***************************************************************************)
(* The command builder.                                                    *)
(***************************************************************************)
RECURSIVE Pow10(_)
Pow10(n) == IF n = 0 THEN 1 ELSE 10 * Pow10(n - 1)

\* float64 multiplication by an integer, and addition
FMul(f, n) == Normal(f.m * n, f.e)

FAdd(f, g) ==
    LET e == IF f.e > g.e THEN f.e ELSE g.e
    IN  Normal(f.m * Pow10(e - f.e) + g.m * Pow10(e - g.e), e)

\* the digits of n, padded with zeros on the left to width w
RECURSIVE Padded(_, _)
Padded(n, w) == IF w = 0 THEN "" ELSE Padded(n \div 10, w - 1) \o Digits[(n % 10) + 1]

\* strconv.FormatFloat(f, 'f', -1, 64)
FormatFloat(f) ==
    LET a == IF f.m < 0 THEN -f.m ELSE f.m
        s == IF f.m < 0 THEN "-" ELSE ""
    IN  IF f.e = 0 THEN s \o UintString(a)
        ELSE s \o UintString(a \div Pow10(f.e)) \o "." \o Padded(a % Pow10(f.e), f.e)

BSD == {"freebsd", "netbsd", "openbsd"}

\* the command line with the timeout in seconds on every system
BuiltArgsInSeconds(c, url, system) ==
    << "-c", Itoa(c.Count), "-n", "-s", "16" >>
    \o (IF c.PingInterval.m > 0 THEN << "-i", FormatFloat(c.PingInterval) >> ELSE << >>)
    \o (IF c.Timeout.m > 0 THEN << "-W", FormatFloat(c.Timeout) >> ELSE << >>)
    \o (IF c.Deadline > 0
        THEN IF system = "darwin" \/ system \in BSD
             THEN << "-t", Itoa(c.Deadline) >>
             ELSE << "-w", Itoa(c.Deadline) >>
        ELSE << >>)
    \o (IF c.Interface # ""
        THEN IF system = "darwin" \/ system = "linux" THEN << "-I", c.Interface >>
             ELSE IF system \in BSD THEN << "-s", c.Interface >>
             ELSE << "-i", c.Interface >>
        ELSE << >>)
    \o << url >>

\* args when Arguments is empty: the command line built from the options
BuiltArgs(c, url, system) ==
    << "-c", Itoa(c.Count), "-n", "-s", "16" >>
    \o (IF c.PingInterval.m > 0 THEN << "-i", FormatFloat(c.PingInterval) >> ELSE << >>)
    \o (IF c.Timeout.m > 0
        THEN IF system = "darwin" \/ system \in BSD
             THEN << "-W", FormatFloat(FMul(c.Timeout, 1000)) >>
             ELSE << "-W", FormatFloat(c.Timeout) >>
        ELSE << >>)
    \o (IF c.Deadline > 0
        THEN IF system = "darwin" \/ system \in BSD
             THEN << "-t", Itoa(c.Deadline) >>
             ELSE << "-w", Itoa(c.Deadline) >>
        ELSE << >>)
    \o (IF c.Interface # ""
        THEN IF system = "darwin" \/ system = "linux" THEN << "-I", c.Interface >>
             ELSE IF system \in BSD THEN << "-s", c.Interface >>
             ELSE << "-i", c.Interface >>
        ELSE << >>)
    \o << url >>

\* the build's runtime.GOOS
GOOS == "linux"

\* args: the override followed by the url, or the built command line
PingArgs(c, url, system) ==
    IF Len(c.Arguments) > 0 THEN Append(c.Arguments, url) ELSE BuiltArgs(c, url, system)

\* the timeout with the interval counted once for every packet
TotalTimeoutPerPacket(c) ==
    IF Len(c.Arguments) = 0
    THEN FAdd(FMul(c.Timeout, c.Count), FMul(c.PingInterval, c.Count))
    ELSE Float(60)

\* the timeout pingToURL hands to the HostPinger
TotalTimeout(c) ==
    IF Len(c.Arguments) = 0
    THEN FAdd(FMul(c.Timeout, c.Count), FMul(c.PingInterval, c.Count - 1))
    ELSE Float(60)

\* time.Duration(f): the conversion of a float64 to an integer drops the
\* fraction
Trunc(f) == IF f.m >= 0 THEN f.m \div Pow10(f.e) ELSE -((-f.m) \div Pow10(f.e))

\* the seconds hostPinger lets the ping binary run:
\* time.Second * time.Duration(timeout + 5)
TimeoutSeconds(timeout) == Trunc(FAdd(timeout, Float(5)))

(***************************************************************************)
(* The state.                                                              *)
(***************************************************************************)
VARIABLES
    p,          \* the Ping value: its options, Urls and Arguments
    spare,      \* the elements of Arguments' backing array past its length
    pingHost,   \* the HostPinger: the results a call of it may return
    wg,         \* the WaitGroup's counter
    gather,     \* where Gather is: "loop", "wait" or "returned"
    ret,        \* what Gather returned
    next,       \* the index of the url the loop of Gather launches next
    pc,         \* where the goroutine of each url is
    resolved,   \* what net.LookupHost answered in each goroutine
    args,       \* the slice each goroutine got from p.args
    call,       \* what each goroutine handed to the HostPinger
    probe,      \* what the HostPinger returned to each goroutine
    fields,     \* the field-sets each goroutine added to the accumulator
    errs,       \* the number of errors each goroutine added to the accumulator
    crashed,    \* the process ended on a panic no one recovered
    command,    \* args and the timeouts of one url, computed on their own
    outcome     \* processPingOutput of one text and the fields made of it

vars == << p, spare, pingHost, wg, gather, ret, next, pc, resolved, args, call, probe,
           fields, errs, crashed, command, outcome >>

None == [none |-> TRUE]

Tasks == 1..Len(p.Urls)

\* the options init() registers the plugin with
Defaults ==
    [PingInterval |-> Float(1), Count |-> 1, Timeout |-> Float(1), Deadline |-> 10,
     Interface |-> "", Binary |-> "ping", Urls |-> << >>, Arguments |-> << >>]

\* the options a configuration sets: counts, seconds by halves from -0.5
\* on, deadlines, interfaces
MaxCount == 3

MaxHalves == 3

Seconds == {Normal(5 * k, 1) : k \in -1..MaxHalves}

Options ==
    {[Defaults EXCEPT !.Count = n, !.PingInterval = i, !.Timeout = w, !.Deadline = d,
                      !.Interface = f] :
        n \in 1..MaxCount, i \in Seconds, w \in Seconds, d \in {0, 10}, f \in {"", "eth0"}}

\* the values of runtime.GOOS the command line is built for
Systems == {"linux", "darwin"} \cup BSD \cup {"windows", "solaris"}

\* the names the configured urls are drawn from
Hosts == {"a.test", "b.test"}

UrlLists == UNION {[1..n -> Hosts] : n \in 0..MaxTargets}

\* the override of the sample configuration
SampleArguments == << "-c", "3" >>

\* the error values a HostPinger returns: nil, an *exec.ExitError with the
\* exit status of its WaitStatus (-1 when a signal ended the binary), or an
\* error without an exit status (exec.LookPath failed, the timeout fired)
ErrNil == [kind |-> "nil", status |-> 0]

ExitError(s) == [kind |-> "exit", status |-> s]

NoStatusError == [kind |-> "other", status |-> 0]

ExitStatuses == {-1} \cup 1..MaxStatus

Errors == {ErrNil, NoStatusError} \cup {ExitError(s) : s \in ExitStatuses}

\* a ping binary that may print any of the texts and end in any way
AnyPinger == [out : AllOutputs, err : Errors]

\* a ping binary that prints any of the texts and then ends well, or is not
\* found or is killed on the timeout
FailingPinger == [out : AllOutputs, err : {ErrNil, NoStatusError}]

\* a ping binary with a few behaviours: replies, full loss and exit status
\* 1, a failure with exit status 2, a binary that is not found, a reply
\* line without a ttl
FewPinger ==
    { [out |-> Replies, err |-> ErrNil],
      [out |-> FullLoss, err |-> ExitError(1)],
      [out |-> Banner, err |-> ExitError(2)],
      [out |-> "", err |-> NoStatusError],
      [out |-> NoTtl, err |-> ErrNil] }

\* the share of the packets received in place of the share lost
LossOfReceived(trans, rec) ==
    IF trans # 0 THEN [kind |-> "number", num |-> rec * 100, den |-> trans]
    ELSE IF trans - rec = 0 THEN [kind |-> "NaN", num |-> 0, den |-> 0]
    ELSE IF trans - rec > 0 THEN [kind |-> "+Inf", num |-> 0, den |-> 0]
    ELSE [kind |-> "-Inf", num |-> 0, den |-> 0]

\* float64(trans-rec) / float64(trans) * 100.0: a quotient, or what the
\* float division gives when trans is 0
Loss(trans, rec) ==
    IF trans # 0 THEN [kind |-> "number", num |-> (trans - rec) * 100, den |-> trans]
    ELSE IF trans - rec = 0 THEN [kind |-> "NaN", num |-> 0, den |-> 0]
    ELSE IF trans - rec > 0 THEN [kind |-> "+Inf", num |-> 0, den |-> 0]
    ELSE [kind |-> "-Inf", num |-> 0, den |-> 0]

NoField == [k \in {} |-> 0]

\* the fields with every value reported, the sentinels too
MeasurementsWithSentinels(r) ==
    ("packets_transmitted" :> r.trans)
    @@ ("packets_received" :> r.recv)
    @@ ("percent_packet_loss" :> Loss(r.trans, r.recv))
    @@ ("ttl" :> r.ttl)
    @@ ("minimum_response_ms" :> r.min)
    @@ ("average_response_ms" :> r.avg)
    @@ ("maximum_response_ms" :> r.max)
    @@ ("standard_deviation_ms" :> r.stddev)

\* the fields pingToURL adds after a parse without error
Measurements(r) ==
    ("packets_transmitted" :> r.trans)
    @@ ("packets_received" :> r.recv)
    @@ ("percent_packet_loss" :> Loss(r.trans, r.recv))
    @@ (IF r.ttl >= 0 THEN "ttl" :> r.ttl ELSE NoField)
    @@ (IF r.min.m >= 0 THEN "minimum_response_ms" :> r.min ELSE NoField)
    @@ (IF r.avg.m >= 0 THEN "average_response_ms" :> r.avg ELSE NoField)
    @@ (IF r.max.m >= 0 THEN "maximum_response_ms" :> r.max ELSE NoField)
    @@ (IF r.stddev.m >= 0 THEN "standard_deviation_ms" :> r.stddev ELSE NoField)

\* fields["result_code"] when the error handling is over: 0 at first, the
\* exit status once an *exec.ExitError gave one
ResultCode(err) == IF err.kind = "exit" THEN err.status ELSE 0

\* the status with 1 in place of -1 for an error without an exit status
StatusOrOne(err) == IF err.kind = "exit" THEN err.status ELSE 1

\* status of pingToURL: the exit status, -1 without one
Status(err) == IF err.kind = "exit" THEN err.status ELSE -1

\* pingToURL from the return of the HostPinger on: whether it panics, the
\* errors it adds and the fields it adds
AfterParse(err, parsed) ==
    IF parsed.panic
    THEN [panic |-> TRUE, errs |-> 0, fields |-> NoField]
    ELSE IF parsed.err # "nil"
    THEN [panic |-> FALSE, errs |-> 1, fields |-> ("result_code" :> 2)]
    ELSE [panic |-> FALSE, errs |-> 0,
          fields |-> ("result_code" :> ResultCode(err)) @@ Measurements(parsed)]

AfterPing(r) ==
    IF r.err.kind # "nil" /\ Status(r.err) # 1
    THEN [panic |-> FALSE, errs |-> 1, fields |-> ("result_code" :> 2)]
    ELSE AfterParse(r.err, ParseTable[r.out])

\* the elements of the slice a goroutine holds: its own array, or
\* Arguments' backing array with the element past its length
Elements(t) ==
    IF args[t].shared THEN p.Arguments \o << spare[1] >> ELSE args[t].own

\* acc.AddFields("ping", fields, tags), with whether Gather had returned
Added(t, f) ==
    [fields EXCEPT ![t] = Append(@, [url |-> p.Urls[t], fields |-> f,
                                     late |-> gather = "returned"])]

TypeInit ==
    /\ wg = 0
    /\ gather = "loop"
    /\ ret = "none"
    /\ next = 1
    /\ pc = [t \in Tasks |-> "idle"]
    /\ resolved = [t \in Tasks |-> "pending"]
    /\ args = [t \in Tasks |-> None]
    /\ call = [t \in Tasks |-> None]
    /\ probe = [t \in Tasks |-> None]
    /\ fields = [t \in Tasks |-> << >>]
    /\ errs = [t \in Tasks |-> 0]
    /\ crashed = FALSE

\* a Ping as the configuration loader fills it
Configured(urls) ==
    /\ \E a \in {<< >>, SampleArguments} :
          /\ p = [Defaults EXCEPT !.Urls = urls, !.Arguments = a]
          /\ \E n \in 0..(IF a = << >> THEN 0 ELSE MaxSpare) : spare = [i \in 1..n |-> ""]

Init ==
    /\ \E urls \in UrlLists : Configured(urls)
    /\ pingHost = FewPinger
    /\ TypeInit
    /\ command = None
    /\ outcome = None

\* one url, and a ping binary of any behaviour
ProbeInit ==
    /\ \E h \in Hosts : Configured(<< h >>)
    /\ pingHost = AnyPinger
    /\ TypeInit
    /\ command = None
    /\ outcome = None

(***************************************************************************)
(* Gather.                                                                 *)
(***************************************************************************)
\* the loop with pingToURL called in place, without `go`: the next url
\* waits for the call to return
GatherSpawnInline ==
    /\ ~crashed
    /\ gather = "loop"
    /\ next <= Len(p.Urls)
    /\ \A t \in Tasks : pc[t] \in {"idle", "done"}
    /\ wg' = wg + 1
    /\ pc' = [pc EXCEPT ![next] = "lookup"]
    /\ next' = next + 1
    /\ UNCHANGED << p, ret, spare, pingHost, gather, resolved, args, call, probe, fields,
                    errs, crashed, command, outcome >>

\* wg.Add(1); go p.pingToURL(url, acc)
GatherSpawn ==
    /\ ~crashed
    /\ gather = "loop"
    /\ next <= Len(p.Urls)
    /\ wg' = wg + 1
    /\ pc' = [pc EXCEPT ![next] = "lookup"]
    /\ next' = next + 1
    /\ UNCHANGED << p, ret, spare, pingHost, gather, resolved, args, call, probe, fields,
                    errs, crashed, command, outcome >>

\* the loop is over: p.wg.Wait()
GatherWait ==
    /\ ~crashed
    /\ gather = "loop"
    /\ next > Len(p.Urls)
    /\ gather' = "wait"
    /\ UNCHANGED << p, ret, spare, pingHost, wg, next, pc, resolved, args, call, probe,
                    fields, errs, crashed, command, outcome >>

\* Wait returns once the counter is 0; return nil
GatherReturn ==
    /\ ~crashed
    /\ gather = "wait"
    /\ wg = 0
    /\ gather' = "returned"
    /\ ret' = "nil"
    /\ UNCHANGED << p, spare, pingHost, wg, next, pc, resolved, args, call, probe,
                    fields, errs, crashed, command, outcome >>

(***************************************************************************)
(* pingToURL, the goroutine of the url at index t.                         *)
(***************************************************************************)
\* LookupHost without the return on its error: the goroutine goes on to ping
LookupHostNoReturn(t) ==
    /\ ~crashed
    /\ pc[t] = "lookup"
    /\ \/ /\ resolved' = [resolved EXCEPT ![t] = "ok"]
          /\ UNCHANGED << fields, errs >>
       \/ /\ resolved' = [resolved EXCEPT ![t] = "failed"]
          /\ errs' = [errs EXCEPT ![t] = @ + 1]
          /\ fields' = Added(t, "result_code" :> 1)
    /\ pc' = [pc EXCEPT ![t] = "args"]
    /\ UNCHANGED << p, ret, spare, pingHost, wg, gather, next, args, call, probe, crashed,
                    command, outcome >>

\* net.LookupHost(u), and the return on its error
LookupHost(t) ==
    /\ ~crashed
    /\ pc[t] = "lookup"
    /\ \/ /\ resolved' = [resolved EXCEPT ![t] = "ok"]
          /\ pc' = [pc EXCEPT ![t] = "args"]
          /\ UNCHANGED << fields, errs >>
       \/ /\ resolved' = [resolved EXCEPT ![t] = "failed"]
          /\ errs' = [errs EXCEPT ![t] = @ + 1]
          /\ fields' = Added(t, "result_code" :> 1)
          /\ pc' = [pc EXCEPT ![t] = "deferred"]
    /\ UNCHANGED << p, ret, spare, pingHost, wg, gather, next, args, call, probe, crashed,
                    command, outcome >>

\* args := p.args(u, runtime.GOOS): append(p.Arguments, url) writes the url
\* into Arguments' backing array when it has spare capacity, and copies the
\* elements to a new array when it has none.  The goroutines write and read
\* the spare element without synchronization; the writes and the reads are
\* taken in every order, each one whole.
Args(t) ==
    /\ ~crashed
    /\ pc[t] = "args"
    /\ IF Len(p.Arguments) > 0
       THEN IF Len(spare) > 0
            THEN /\ spare' = [spare EXCEPT ![1] = p.Urls[t]]
                 /\ args' = [args EXCEPT ![t] = [shared |-> TRUE, own |-> << >>]]
            ELSE /\ args' = [args EXCEPT ![t] =
                               [shared |-> FALSE, own |-> Append(p.Arguments, p.Urls[t])]]
                 /\ UNCHANGED spare
       ELSE /\ args' = [args EXCEPT ![t] =
                          [shared |-> FALSE, own |-> BuiltArgs(p, p.Urls[t], GOOS)]]
            /\ UNCHANGED spare
    /\ pc' = [pc EXCEPT ![t] = "call"]
    /\ UNCHANGED << p, ret, pingHost, wg, gather, next, resolved, call, probe, fields, errs,
                    crashed, command, outcome >>

\* p.pingHost(p.Binary, totalTimeout, args...) starts
PingStart(t) ==
    /\ ~crashed
    /\ pc[t] = "call"
    /\ call' = [call EXCEPT ![t] = [binary |-> p.Binary, timeout |-> TotalTimeout(p),
                                    args |-> Elements(t)]]
    /\ pc' = [pc EXCEPT ![t] = "pinging"]
    /\ UNCHANGED << p, ret, spare, pingHost, wg, gather, next, resolved, args, probe, fields,
                    errs, crashed, command, outcome >>

\* p.pingHost returns, and pingToURL runs to its return or to a panic
Returned(t, r, a) ==
    /\ probe' = [probe EXCEPT ![t] = r]
    /\ errs' = [errs EXCEPT ![t] = @ + a.errs]
    /\ IF a.panic
       THEN /\ pc' = [pc EXCEPT ![t] = "panicking"]
            /\ UNCHANGED fields
       ELSE /\ pc' = [pc EXCEPT ![t] = "deferred"]
            /\ fields' = Added(t, a.fields)

PingReturn(t) ==
    /\ ~crashed
    /\ pc[t] = "pinging"
    /\ \E r \in pingHost : Returned(t, r, AfterPing(r))
    /\ UNCHANGED << p, ret, spare, pingHost, wg, gather, next, resolved, args, call, crashed,
                    command, outcome >>

\* defer p.wg.Done(): on the return, and on a panic before the goroutine dies
Done(t) ==
    /\ ~crashed
    /\ pc[t] \in {"deferred", "panicking"}
    /\ wg' = wg - 1
    /\ pc' = [pc EXCEPT ![t] = IF pc[t] = "deferred" THEN "done" ELSE "fatal"]
    /\ UNCHANGED << p, ret, spare, pingHost, gather, next, resolved, args, call, probe,
                    fields, errs, crashed, command, outcome >>

\* no one recovers the panic of a goroutine: the runtime ends the process
Crash ==
    /\ ~crashed
    /\ \E t \in Tasks : pc[t] = "fatal"
    /\ crashed' = TRUE
    /\ UNCHANGED << p, ret, spare, pingHost, wg, gather, next, pc, resolved, args, call,
                    probe, fields, errs, command, outcome >>

Task(t) == LookupHost(t) \/ Args(t) \/ PingStart(t) \/ PingReturn(t) \/ Done(t)

Next ==
    \/ GatherSpawn
    \/ GatherWait
    \/ GatherReturn
    \/ \E t \in Tasks : LookupHost(t)
    \/ \E t \in Tasks : Args(t)
    \/ \E t \in Tasks : PingStart(t)
    \/ \E t \in Tasks : PingReturn(t)
    \/ \E t \in Tasks : Done(t)
    \/ Crash

Spec == Init /\ [][Next]_vars

ProbeSpec == ProbeInit /\ [][Next]_vars

\* one url, and a ping binary that ends well or without an exit status
FailInit ==
    /\ \E h \in Hosts : Configured(<< h >>)
    /\ pingHost = FailingPinger
    /\ TypeInit
    /\ command = None
    /\ outcome = None

FailSpec == FailInit /\ [][Next]_vars

(***************************************************************************)
(* args and the timeouts on their own: for a Ping of any options, the      *)
(* command line of a url on a system and the time its ping binary gets.    *)
(***************************************************************************)
ArgsInit ==
    /\ \E c \in Options : \E a \in {<< >>, SampleArguments} : p = [c EXCEPT !.Arguments = a]
    /\ spare = << >>
    /\ pingHost = {}
    /\ TypeInit
    /\ command = None
    /\ outcome = None

\* args := p.args(u, system), totalTimeout and the Duration of hostPinger
BuildCommand ==
    /\ command = None
    /\ \E url \in Hosts : \E system \in Systems :
          command' = [system |-> system, url |-> url, args |-> PingArgs(p, url, system),
                      timeout |-> TotalTimeout(p),
                      seconds |-> TimeoutSeconds(TotalTimeout(p))]
    /\ UNCHANGED << p, ret, spare, pingHost, wg, gather, next, pc, resolved, args, call,
                    probe, fields, errs, crashed, outcome >>

ArgsSpec == ArgsInit /\ [][BuildCommand]_vars

(***************************************************************************)
(* processPingOutput on its own: the parse of one text and the fields      *)
(* pingToURL makes of it after a ping binary that ended with status 0.     *)
(***************************************************************************)
ParseInit ==
    /\ p = Defaults
    /\ spare = << >>
    /\ pingHost = {}
    /\ TypeInit
    /\ command = None
    /\ \E ls \in Texts : outcome = [ls |-> ls, res |-> None, after |-> None]

Parsed(ls, res) == [ls |-> ls, res |-> res, after |-> AfterParse(ErrNil, res)]

\* trans, rec, ttl, min, avg, max, stddev, err := processPingOutput(out),
\* and the rest of pingToURL
Parse ==
    /\ outcome.res = None
    /\ outcome' = Parsed(outcome.ls, processPingOutput(TextOf(outcome.ls)))
    /\ UNCHANGED << p, ret, spare, pingHost, wg, gather, next, pc, resolved, args, call,
                    probe, fields, errs, crashed, command >>

ParseSpec == ParseInit /\ [][Parse]_vars

(***************************************************************************)
(* Properties.                                                             *)
(***************************************************************************)
\* the goroutine of url t is running: launched, and neither returned nor dead
Running(t) == pc[t] \in {"lookup", "args", "call", "pinging", "deferred", "panicking"}

\* the goroutine of url t is over
Over(t) == pc[t] \in {"done", "fatal"}

OnlyResultCode(f) == DOMAIN f = {"result_code"}

\* the text has a line with both "transmitted" and "received"
HasSummaryLine(out) ==
    \E i \in 1..Len(Split(out, "\n")) :
        /\ Contains(Split(out, "\n")[i], "transmitted")
        /\ Contains(Split(out, "\n")[i], "received")

SummaryTable == [out \in AllOutputs \cup FewOutputs |-> HasSummaryLine(out)]

\* the banner, reply, statistics and round-trip lines a ping binary prints
WellFormedLines == {Lines[i] : i \in 1..6}

\* a text of well-formed lines with statistics of packets that were sent
WellFormed(out) ==
    /\ \A i \in 1..Len(Split(out, "\n")) : Split(out, "\n")[i] \in WellFormedLines
    /\ \E i \in 1..Len(Split(out, "\n")) : Split(out, "\n")[i] \in {Lines[3], Lines[4]}

WellFormedTable == [out \in AllOutputs \cup FewOutputs |-> WellFormed(out)]

\* C1: once Gather has returned, it returned nil and every entry of Urls has
\* exactly one field-set in the accumulator, tagged with its url and added
\* before the return.
C1_OneFieldSetPerTarget ==
    gather = "returned" =>
        /\ ret = "nil"
        /\ \A t \in Tasks :
              /\ Len(fields[t]) = 1
              /\ fields[t][1].url = p.Urls[t]
              /\ ~fields[t][1].late

\* C2: no goroutine waits for another: as long as the process lives, every
\* running goroutine can take its next step and the loop of Gather can
\* launch the next url, whatever the other goroutines are doing.
C2_NoTaskWaits ==
    ~crashed =>
        /\ \A t \in Tasks : Running(t) => ENABLED Task(t)
        /\ (gather = "loop" /\ next <= Len(p.Urls)) => ENABLED GatherSpawn

\* C2, its case: the probes of all the urls, two or more, are in flight
C2_AllInFlight ==
    /\ Len(p.Urls) >= 2
    /\ \A t \in Tasks : pc[t] = "pinging"

\* C3: Gather returns: there is always a step to take until it has.
C3_GatherReturns == gather = "returned" \/ ENABLED Next

\* C4: a url whose name resolution failed has exactly one field-set, whose
\* only field is result_code = 1, and the HostPinger is never called for it.
C4_ResolutionFailure ==
    \A t \in Tasks :
        resolved[t] = "failed" =>
            /\ call[t] = None
            /\ probe[t] = None
            /\ Len(fields[t]) = 1
            /\ fields[t][1].fields = ("result_code" :> 1)

\* C4, its case: the goroutine of a url that did not resolve is over
C4_FailedLookupOver == \E t \in Tasks : resolved[t] = "failed" /\ pc[t] = "done"

\* C5: after exit status 1 and a well-formed text the field-set has
\* result_code = 0 and the statistics.
C5_ExitStatusOneIsSuccess ==
    \A t \in Tasks :
        (/\ probe[t] # None
         /\ probe[t].err = ExitError(1)
         /\ WellFormedTable[probe[t].out]) =>
            /\ Len(fields[t]) = 1
            /\ fields[t][1].fields["result_code"] = 0
            /\ {"packets_transmitted", "packets_received", "percent_packet_loss"}
                   \subseteq DOMAIN fields[t][1].fields

\* C6: after an exit status s other than 0 and 1 the field-set holds
\* result_code = s and nothing else.
C6_ExitStatusIsResultCode ==
    \A t \in Tasks :
        (/\ probe[t] # None
         /\ probe[t].err.kind = "exit"
         /\ probe[t].err.status >= 2) =>
            /\ Len(fields[t]) = 1
            /\ OnlyResultCode(fields[t][1].fields)
            /\ fields[t][1].fields["result_code"] = probe[t].err.status

\* C7: a text without a line of "transmitted" and "received" makes
\* processPingOutput return an error, and no field-set with result_code = 0
\* comes of it.
C7_NoSummaryLineIsError ==
    \A t \in Tasks :
        (probe[t] # None /\ ~SummaryTable[probe[t].out]) =>
            /\ ParseTable[probe[t].out].err # "nil"
            /\ \A i \in 1..Len(fields[t]) : fields[t][i].fields["result_code"] # 0

\* C8: a field-set with result_code = 0 holds packets_transmitted >= 1,
\* packets_received >= 0 and the loss (transmitted - received) / transmitted
\* * 100, a number.
C8_SuccessHasDefinedLoss ==
    \A t \in Tasks : \A i \in 1..Len(fields[t]) :
        fields[t][i].fields["result_code"] = 0 =>
            /\ {"packets_transmitted", "packets_received", "percent_packet_loss"}
                   \subseteq DOMAIN fields[t][i].fields
            /\ fields[t][i].fields["packets_transmitted"] >= 1
            /\ fields[t][i].fields["packets_received"] >= 0
            /\ fields[t][i].fields["percent_packet_loss"] =
                   [kind |-> "number",
                    num |-> (fields[t][i].fields["packets_transmitted"]
                             - fields[t][i].fields["packets_received"]) * 100,
                    den |-> fields[t][i].fields["packets_transmitted"]]

\* the goroutine of url t failed: the lookup, the ping binary (any error
\* but exit status 1) or the parse of its text
Failed(t) ==
    \/ resolved[t] = "failed"
    \/ /\ probe[t] # None
       /\ \/ probe[t].err.kind # "nil" /\ Status(probe[t].err) # 1
          \/ ParseTable[probe[t].out].panic
          \/ ParseTable[probe[t].out].err # "nil"

\* C9: a goroutine that failed has added exactly one error and exactly one
\* field-set when it is over, with a result_code other than 0 and no other
\* field; one that added a field-set with result_code = 0 added no error;
\* and when nothing is left to run every url has its field-set.
C9_FailuresAreReported ==
    /\ \A t \in Tasks :
          (Over(t) /\ Failed(t)) =>
              /\ errs[t] = 1
              /\ Len(fields[t]) = 1
              /\ OnlyResultCode(fields[t][1].fields)
              /\ fields[t][1].fields["result_code"] # 0
    /\ \A t \in Tasks : \A i \in 1..Len(fields[t]) :
          fields[t][i].fields["result_code"] = 0 => errs[t] = 0
    /\ ~ENABLED Next => \A t \in Tasks : Len(fields[t]) = 1

\* C10: with an Arguments override, the argument list handed to the
\* HostPinger for a url is Arguments followed by that url.
C10_OwnUrlIsLastArgument ==
    \A t \in Tasks :
        (call[t] # None /\ Len(p.Arguments) > 0) =>
            call[t].args = Append(p.Arguments, p.Urls[t])

\* the systems args has a case for
KnownSystems == {"linux", "darwin"} \cup BSD

\* a flag and its value when the option is set, nothing when it is not
Flag(set, flag, value) == IF set THEN << flag, value >> ELSE << >>

C12_UnknownSystemAsLinux ==
    (command # None /\ command.system \notin KnownSystems) =>
        command.args = PingArgs(p, command.url, "linux")

\* the float f times 10^e, an integer when f has no more than e decimals
Scaled(f, e) == f.m * Pow10(e - f.e)

\* the timeout handed to the HostPinger is 60 with an override, and else
\* Count * Timeout + (Count - 1) * PingInterval
TimeoutAsConfigured ==
    IF Len(p.Arguments) > 0 THEN command.timeout = Float(60)
    ELSE Scaled(command.timeout, p.Timeout.e + p.PingInterval.e) =
             p.Count * Scaled(p.Timeout, p.Timeout.e + p.PingInterval.e)
             + (p.Count - 1) * Scaled(p.PingInterval, p.Timeout.e + p.PingInterval.e)

\* C19: with Count >= 1 and a Timeout and a PingInterval that are not
\* negative, the timeout handed to the HostPinger is 60 seconds with an
\* override and Count * Timeout + (Count - 1) * PingInterval without, and
\* the ping binary gets the whole seconds of that timeout plus 5, the
\* fraction dropped: 5 seconds or more.
C19_BoundIsWholeSeconds ==
    (command # None /\ p.Count >= 1 /\ p.Timeout.m >= 0 /\ p.PingInterval.m >= 0) =>
        /\ TimeoutAsConfigured
        /\ command.seconds * Pow10(command.timeout.e)
               <= command.timeout.m + 5 * Pow10(command.timeout.e)
        /\ command.timeout.m + 5 * Pow10(command.timeout.e)
               < (command.seconds + 1) * Pow10(command.timeout.e)
        /\ command.seconds >= 5

\* C19, its case: three packets, half a second each and a second between
\* them: 3.5 seconds, and 8 for the ping binary
C19_FractionalTimeout ==
    /\ command # None
    /\ Len(p.Arguments) = 0
    /\ p.Count = 3
    /\ p.Timeout = Normal(5, 1)
    /\ command.timeout = Normal(35, 1)
    /\ command.seconds = 8

\* C19 as the specification words it: the ping binary gets that timeout
\* plus 5 seconds, a positive time.
C19_BoundIsTimeoutPlusFive ==
    (command # None /\ p.Count >= 1 /\ p.Timeout.m >= 0 /\ p.PingInterval.m >= 0) =>
        /\ TimeoutAsConfigured
        /\ command.seconds * Pow10(command.timeout.e)
               = command.timeout.m + 5 * Pow10(command.timeout.e)
        /\ command.seconds > 0

\* the lines of each shape processPingOutput looks for
TtlShapes == {i \in DOMAIN ParserLines : Contains(ParserLines[i], "ttl=")}

SummaryShapes ==
    {i \in DOMAIN ParserLines :
        Contains(ParserLines[i], "transmitted") /\ Contains(ParserLines[i], "received")}

RttShapes == {i \in DOMAIN ParserLines : Contains(ParserLines[i], "min/avg/max")}

\* the numbers of a round-trip line: the slash-separated parts of its
\* fourth token
RttNumbers(toks) == IF Len(toks) < 4 THEN << >> ELSE Split(toks[4], "/")

\* the parts that checkRoundTripTimeStats converts are all numbers
NumbersOnly(data) ==
    /\ \A k \in 1..Len(data) : k <= 3 => ParseFloat(data[k]).err = "nil"
    /\ Len(data) = 4 => ParseFloat(data[4]).err = "nil"

\* the round-trip lines with something else than a number in their fourth
\* space-separated token
RttTextShapes ==
    {i \in RttShapes :
        /\ Len(Split(ParserLines[i], " ")) >= 4
        /\ ~NumbersOnly(RttNumbers(Split(ParserLines[i], " ")))}

\* processPingOutput has run on the text
TextParsed == outcome # None /\ outcome.res # None

\* the text has the line, and no other line of the summary shape
OnlySummary(ls, line) ==
    \E i \in DOMAIN ls :
        /\ ParserLines[ls[i]] = line
        /\ \A j \in DOMAIN ls : ls[j] \in SummaryShapes => j = i

\* the result of a parse of "x packets transmitted, y packets received, ..."
CountsAndLoss(o, x, y) ==
    /\ ~o.res.panic
    /\ o.res.trans = x
    /\ o.res.recv = y
    /\ o.res.err = "nil"
    /\ o.after.fields["percent_packet_loss"] =
           [kind |-> "number", num |-> (x - y) * 100, den |-> x]

SoundShapes == {1, 2, 3, 5, 6, 9, 10, 15}

\* line i is the only round-trip line of the text, among sound lines
OnlyRoundTrip(ls, i) ==
    /\ ls[i] \in RttShapes
    /\ \A j \in DOMAIN ls : j # i => ls[j] \in SoundShapes \ RttShapes

\* the words of a line: what stands between its runs of spaces
Words(line) == SelectSeq(Split(line, " "), LAMBDA w : w # "")

\* a slash-separated list of three or four numbers
ListOfNumbers(data) ==
    /\ Len(data) \in {3, 4}
    /\ \A k \in 1..Len(data) : ParseFloat(data[k]).err = "nil"

\* the parse returned the numbers of data as minimum, average, maximum and
\* standard deviation; without a fourth number the standard deviation is
\* -1.0 and no field is made of it
RoundTripOf(o, data) ==
    /\ ~o.res.panic
    /\ o.res.err = "nil"
    /\ o.res.min = ParseFloat(data[1]).val
    /\ o.res.avg = ParseFloat(data[2]).val
    /\ o.res.max = ParseFloat(data[3]).val
    /\ IF Len(data) = 4 THEN o.res.stddev = ParseFloat(data[4]).val
       ELSE /\ o.res.stddev = Float(-1)
            /\ "standard_deviation_ms" \notin DOMAIN o.after.fields

\* C14: of a min/avg/max line whose fourth token, the line split at every
\* single space, is a slash-separated list of three or four numbers,
\* processPingOutput returns the first three as minimum, average and
\* maximum and the fourth, when there is one, as standard deviation; with
\* three numbers the standard deviation stays -1.0 and no
\* standard_deviation_ms is reported.
C14_FourthSpaceToken ==
    TextParsed =>
        \A i \in DOMAIN outcome.ls :
            (/\ OnlyRoundTrip(outcome.ls, i)
             /\ ListOfNumbers(RttNumbers(Split(ParserLines[outcome.ls[i]], " ")))) =>
                RoundTripOf(outcome, RttNumbers(Split(ParserLines[outcome.ls[i]], " ")))

\* C14, its case: a round-trip line of three numbers after another line
C14_ThreeNumbers ==
    /\ TextParsed
    /\ Len(outcome.ls) = 2
    /\ OnlyRoundTrip(outcome.ls, 2)
    /\ ParserLines[outcome.ls[2]] = Lines[6]
    /\ outcome.res.min = Normal(15, 1)
    /\ outcome.res.stddev = Float(-1)
    /\ "minimum_response_ms" \in DOMAIN outcome.after.fields
    /\ "standard_deviation_ms" \notin DOMAIN outcome.after.fields

\* C14 as the specification words it: the list is the fourth of the words
\* of the line, however many spaces stand between them.
C14_FourthWord ==
    TextParsed =>
        \A i \in DOMAIN outcome.ls :
            (/\ OnlyRoundTrip(outcome.ls, i)
             /\ ListOfNumbers(RttNumbers(Words(ParserLines[outcome.ls[i]])))) =>
                RoundTripOf(outcome, RttNumbers(Words(ParserLines[outcome.ls[i]])))

\* what the parse of each line alone returns
LineTable == [i \in DOMAIN ParserLines |-> processPingOutput(ParserLines[i])]

\* the sound round-trip lines with a fourth number
FourNumberShapes ==
    {i \in RttShapes \cap SoundShapes :
        Len(RttNumbers(Split(ParserLines[i], " "))) = 4}

Has(ls, shapes) == \E i \in DOMAIN ls : ls[i] \in shapes

\* the first and the last line of a text that is of one of the shapes
First(ls, shapes) ==
    ls[CHOOSE i \in DOMAIN ls : ls[i] \in shapes /\ \A j \in 1..(i - 1) : ls[j] \notin shapes]

Last(ls, shapes) ==
    ls[CHOOSE i \in DOMAIN ls :
           ls[i] \in shapes /\ \A j \in (i + 1)..Len(ls) : ls[j] \notin shapes]

AllSound(ls) == \A i \in DOMAIN ls : ls[i] \in SoundShapes

\* C15: of a text of sound lines, several of them of one shape,
\* processPingOutput returns the ttl of the first ttl line, the counts of
\* the last summary line, the minimum, average and maximum of the last
\* min/avg/max line, and the standard deviation of the last min/avg/max
\* line that has a fourth number.
C15_FirstTtlLastStatistics ==
    (TextParsed /\ AllSound(outcome.ls)) =>
        /\ Has(outcome.ls, TtlShapes) =>
               outcome.res.ttl = LineTable[First(outcome.ls, TtlShapes)].ttl
        /\ Has(outcome.ls, SummaryShapes) =>
               /\ outcome.res.trans = LineTable[Last(outcome.ls, SummaryShapes)].trans
               /\ outcome.res.recv = LineTable[Last(outcome.ls, SummaryShapes)].recv
        /\ Has(outcome.ls, RttShapes) =>
               /\ outcome.res.min = LineTable[Last(outcome.ls, RttShapes)].min
               /\ outcome.res.avg = LineTable[Last(outcome.ls, RttShapes)].avg
               /\ outcome.res.max = LineTable[Last(outcome.ls, RttShapes)].max
        /\ outcome.res.stddev =
               IF Has(outcome.ls, FourNumberShapes)
               THEN LineTable[Last(outcome.ls, FourNumberShapes)].stddev
               ELSE Float(-1)

\* C15, its case: two summary lines of different counts around a
\* round-trip line, and the counts of the second returned
C15_TwoSummaryLines ==
    /\ TextParsed
    /\ Len(outcome.ls) = 3
    /\ ParserLines[outcome.ls[1]] = SummaryLine(2, 2, "0.0")
    /\ outcome.ls[2] \in FourNumberShapes
    /\ ParserLines[outcome.ls[3]] = SummaryLine(3, 1, "0")
    /\ outcome.res.trans = 3
    /\ outcome.res.recv = 1

\* C15 as the specification words it: of each shape the first line wins.
C15_FirstLineWins ==
    (TextParsed /\ AllSound(outcome.ls)) =>
        /\ Has(outcome.ls, TtlShapes) =>
               outcome.res.ttl = LineTable[First(outcome.ls, TtlShapes)].ttl
        /\ Has(outcome.ls, SummaryShapes) =>
               /\ outcome.res.trans = LineTable[First(outcome.ls, SummaryShapes)].trans
               /\ outcome.res.recv = LineTable[First(outcome.ls, SummaryShapes)].recv
        /\ Has(outcome.ls, RttShapes) =>
               /\ outcome.res.min = LineTable[First(outcome.ls, RttShapes)].min
               /\ outcome.res.avg = LineTable[First(outcome.ls, RttShapes)].avg
               /\ outcome.res.max = LineTable[First(outcome.ls, RttShapes)].max
               /\ outcome.res.stddev = LineTable[First(outcome.ls, RttShapes)].stddev

\* the lines with a text where a number belongs: a ttl without digits, a
\* summary and round-trip lines with a text for a number
TextShapes == {4, 7, 11, 14}

AtMostOne(ls, shapes) ==
    \A i \in DOMAIN ls : \A j \in DOMAIN ls :
        (ls[i] \in shapes /\ ls[j] \in shapes) => i = j

\* at most one line of each shape, each one sound or with a text for a number
OneOfEachShape(ls) ==
    /\ \A i \in DOMAIN ls : ls[i] \in SoundShapes \cup TextShapes
    /\ AtMostOne(ls, TtlShapes)
    /\ AtMostOne(ls, SummaryShapes)
    /\ AtMostOne(ls, RttShapes)

\* the lines of a text in every order
Orderings(ls) ==
    {[i \in DOMAIN ls |-> ls[q[i]]] :
        q \in {r \in [DOMAIN ls -> DOMAIN ls] :
                  \A i \in DOMAIN ls : \A j \in DOMAIN ls : r[i] = r[j] => i = j}}

SameVerdict(a, b) == (a.err = "nil") <=> (b.err = "nil")

SameValues(a, b) ==
    /\ a.trans = b.trans
    /\ a.recv = b.recv
    /\ a.ttl = b.ttl
    /\ a.min = b.min
    /\ a.avg = b.avg
    /\ a.max = b.max
    /\ a.stddev = b.stddev

\* two parses that both returned agree on success or error, and on the
\* values when they succeeded
SameOutcome(a, b) ==
    (~a.panic /\ ~b.panic) =>
        /\ SameVerdict(a, b)
        /\ a.err = "nil" => SameValues(a, b)

SameResult(a, b) ==
    (~a.panic /\ ~b.panic) =>
        /\ SameVerdict(a, b)
        /\ SameValues(a, b)

RttFields ==
    << "minimum_response_ms", "average_response_ms", "maximum_response_ms",
       "standard_deviation_ms" >>

\* the k-th number of the last line of the text that is of one of the shapes
KeptNumber(ls, shapes, k) ==
    ParseFloat(RttNumbers(Split(ParserLines[Last(ls, shapes)], " "))[k]).val

\* the lines of the text that hold the k-th round-trip number
Holding(k) == IF k = 4 THEN FourNumberShapes ELSE RttShapes

\* no field holds a negative value
NoneNegative(f) ==
    /\ "ttl" \in DOMAIN f => f["ttl"] >= 0
    /\ \A k \in 1..4 : RttFields[k] \in DOMAIN f => f[RttFields[k]].m >= 0

\* C17: no field-set holds a negative ttl, minimum, average, maximum or
\* standard deviation, and a field-set with result_code = 0 holds the ttl
\* exactly when the text has a ttl line, and each round-trip field exactly
\* when the last line that holds its number has it not negative.
C17_SentinelNeverReported ==
    (TextParsed /\ ~outcome.after.panic) =>
        /\ NoneNegative(outcome.after.fields)
        /\ outcome.after.fields["result_code"] = 0 =>
               /\ "ttl" \in DOMAIN outcome.after.fields <=> Has(outcome.ls, TtlShapes)
               /\ \A k \in 1..4 :
                      RttFields[k] \in DOMAIN outcome.after.fields <=>
                          /\ Has(outcome.ls, Holding(k))
                          /\ KeptNumber(outcome.ls, Holding(k), k).m >= 0

\* C17, its case: a reply, a summary and a round-trip line with a negative
\* minimum: the ttl, the average and the maximum reported, the minimum and
\* the standard deviation not
C17_NegativeMinimum ==
    /\ TextParsed
    /\ ~outcome.after.panic
    /\ outcome.after.fields["result_code"] = 0
    /\ Len(outcome.ls) = 3
    /\ outcome.ls[3] = 15
    /\ DOMAIN outcome.after.fields =
           {"result_code", "packets_transmitted", "packets_received",
            "percent_packet_loss", "ttl", "average_response_ms", "maximum_response_ms"}

\* C17 as the specification words it: on a field-set with result_code = 0
\* each field is there exactly when the text holds its value.
C17_ReportedWhenObserved ==
    (TextParsed /\ ~outcome.after.panic) =>
        /\ NoneNegative(outcome.after.fields)
        /\ outcome.after.fields["result_code"] = 0 =>
               /\ "ttl" \in DOMAIN outcome.after.fields <=> Has(outcome.ls, TtlShapes)
               /\ \A k \in 1..4 :
                      RttFields[k] \in DOMAIN outcome.after.fields <=>
                          Has(outcome.ls, Holding(k))

\* C18: after an error of the HostPinger without an exit status (the
\* binary not found, the ping binary killed on the timeout) the goroutine
\* has added one error and one field-set whose only field is result_code =
\* 2, and has not run processPingOutput, whatever text came with the error.
C18_NoExitStatus ==
    \A t \in Tasks :
        (probe[t] # None /\ probe[t].err.kind = "other") =>
            /\ errs[t] = 1
            /\ Len(fields[t]) = 1
            /\ fields[t][1].fields = ("result_code" :> 2)
            /\ pc[t] \in {"deferred", "done"}

\* C18, its case: the error came with a text that processPingOutput would
\* panic on, and the goroutine is over
C18_KilledAfterOutput ==
    \E t \in Tasks :
        /\ probe[t] # None
        /\ probe[t].err.kind = "other"
        /\ ParseTable[probe[t].out].panic
        /\ pc[t] = "done"

\* C20: processPingOutput returns of every text, a result or an error, and
\* pingToURL makes a field-set of it.
C20_ParserReturns ==
    TextParsed =>
        /\ ~outcome.res.panic
        /\ "result_code" \in DOMAIN outcome.after.fields

====
